---- MODULE Spec2Model ----
(***************************************************************************)
(* The dataset evaluation engine of LangChainPlusClient                    *)
(* (src/langchain/client/langchain.py): the concurrent entry point         *)
(* arun_on_dataset with its helper _gather_with_concurrency (an asyncio    *)
(* semaphore plus a queue of pooled tracers), the sequential entry point   *)
(* run_on_dataset, and the per-example evaluators _arun_llm_or_chain and   *)
(* run_llm_or_chain.                                                       *)
(*                                                                         *)
(* One behaviour of the model is one batch call.  Init draws the call's    *)
(* arguments and the dataset; the actions are the statements of the entry  *)
(* point and of the per-example tasks, cut at asyncio's suspension points  *)
(* (every await) and, inside one task, between the statements whose order  *)
(* the claims speak about.                                                 *)
(***************************************************************************)
EXTENDS Integers, Sequences, FiniteSets, TLC

\* ------------------------------------------------------------------ bounds

\* The largest number of examples in the dataset.
MaxExamples == 2

\* The largest concurrency_level drawn (the smallest is -1).
MaxConcurrency == 2

\* The largest num_repetitions drawn.
MaxRepetitions == 2

\* The repetitions per example in the runs checked for termination.
FairRepetitions == 1

\* ------------------------------------------------------------------ values

\* tracer.example_id before any evaluation tagged the tracer (None).
NoTag == "None"

\* No tracer bound to a task.
NoTracer == 0

\* The text of the error the evaluation target raises.
TargetError == "boom"

\* The value a successful target invocation returns.
TargetValue == "ok"

\* The kinds of llm_or_chain_factory the isinstance tests tell apart.
TargetKinds == {"BaseLLM", "BaseChatModel", "OtherLanguageModel", "Factory"}

\* What one call of the target (a constructor call, agenerate, arun) does:
\* return, raise an Exception, or raise a BaseException that is no Exception
\* (KeyboardInterrupt, SystemExit, asyncio.CancelledError).
Outcomes == {"ok", "err", "interrupt"}

\* An output slot: the target's return value, or the failure marker
\* {"Error": str(e)}.
Success(v) == <<"Success", v>>

ErrorMarker(msg) == <<"Error", msg>>

\* ----------------------------------------------------------------- dataset

\* The keys of example e's inputs: the dataset holds a text-completion
\* example, a chat example and an example of another shape, in turn.
InputKeys(e) ==
    CASE e % 3 = 1 -> {"prompt"}
      [] e % 3 = 2 -> {"messages"}
      [] OTHER     -> {"question"}

\* str(example.id): the key of the example in the result map.
Key(e) == ToString(e)

VARIABLES
    mode,               \* "concurrent" (arun_on_dataset) | "sequential"
    concurrency_level,  \* argument of arun_on_dataset
    num_repetitions,    \* argument of both entry points
    numExamples,        \* len(examples)
    targetKind,         \* the kind of llm_or_chain_factory
    sessionGiven,       \* session_name is not None
    phase,              \* where the entry point is
    error,              \* what the entry point raised ("none": nothing)
    semaphore,          \* the asyncio.Semaphore's value
    tracer_queue,       \* the asyncio.Queue of available tracers
    built,              \* tracers built so far: they are 1..built
    tag,                \* tracer -> tracer.example_id
    pc,                 \* example -> where its unit of work is
    held,               \* example -> the tracer its unit of work holds
    prev,               \* example -> previous_example_id of its evaluator
    outputs,            \* example -> outputs of its evaluator
    results,            \* the result map: key -> outputs
    writes,             \* example -> times results[str(example.id)] was set
    num_processed,      \* job_state["num_processed"]
    rep,                \* example -> iterations of its evaluator's loop run
    result,             \* run_on_dataset's local `result`: <<>> while unbound,
                        \* <<outputs>> once bound
    current,            \* run_on_dataset's local `example` (0: unbound)
    seen,               \* what the target's calls did so far (a set of Outcomes)
    chain,              \* example -> its evaluator's local `chain`: the turn of
                        \* the loop whose factory call made it (0: unbound)
    invoked,            \* <<example, route>> of the invocations made so far
    factoryCalls        \* calls of llm_or_chain_factory() so far, in a run that
                        \* no BaseException has cut short (0 from then on)

vars == <<mode, concurrency_level, num_repetitions, numExamples, targetKind,
          sessionGiven, phase, error, semaphore, tracer_queue, built, tag,
          pc, held, prev, outputs, rep, results, writes, num_processed,
          result, current, seen, chain, invoked,
          factoryCalls>>

args == <<mode, concurrency_level, num_repetitions, numExamples, targetKind,
          sessionGiven>>

Examples == 1..numExamples

Tracers == 1..built

Init ==
    /\ mode \in {"concurrent", "sequential"}
    /\ concurrency_level \in
         IF mode = "concurrent" THEN (-1)..MaxConcurrency ELSE {1}
    /\ num_repetitions \in 0..MaxRepetitions
    /\ numExamples \in 0..MaxExamples
    /\ targetKind \in TargetKinds
    /\ sessionGiven \in BOOLEAN
    /\ phase = "start"
    /\ error = "none"
    /\ semaphore = 0
    /\ tracer_queue = <<>>
    /\ built = 0
    /\ tag = <<>>
    /\ pc = [e \in 1..numExamples |-> "unscheduled"]
    /\ held = [e \in 1..numExamples |-> NoTracer]
    /\ prev = [e \in 1..numExamples |-> NoTag]
    /\ outputs = [e \in 1..numExamples |-> <<>>]
    /\ rep = [e \in 1..numExamples |-> 0]
    /\ results = <<>>
    /\ writes = [e \in 1..numExamples |-> 0]
    /\ num_processed = 0
    /\ result = <<>>
    /\ current = 0
    /\ seen = {}
    /\ chain = [e \in 1..numExamples |-> 0]
    /\ invoked = {}
    /\ factoryCalls = 0

\* --------------------------------------------------- the target's calls

\* One call of the target by way of `route` (agenerate on a prompt: "text",
\* agenerate on messages: "chat", a chain's arun: "chain", the factory alone:
\* "factory"): <<what it gives the caller, the value or the error's text,
\* what the call did, the route taken>>.
Call(out, route) ==
    CASE out = "ok"  -> <<"return", TargetValue, {"ok"}, {route}>>
      [] out = "err" -> <<"raise", TargetError, {"err"}, {route}>>
      [] OTHER       -> <<"interrupt", "", {"interrupt"}, {route}>>

\* A model called whatever the inputs hold, the inputs coerced to a prompt.
ArunLlm_coerce(kind, keys, out) ==
    IF kind = "BaseChatModel" THEN Call(out, "chat") ELSE Call(out, "text")

\* _arun_llm: the model is invoked only when the inputs hold the key its
\* kind needs; otherwise a ValueError is raised and the model is not called.
ArunLlm(kind, keys, out) ==
    IF kind = "BaseLLM"
    THEN IF "prompt" \notin keys
         THEN <<"raise", "LLM Run requires 'prompt' input", {}, {}>>
         ELSE Call(out, "text")
    ELSE IF kind = "BaseChatModel"
    THEN IF "messages" \notin keys
         THEN <<"raise", "Chat Run requires 'messages' input", {}, {}>>
         ELSE Call(out, "chat")
    ELSE <<"raise", "Unsupported LLM type", {}, {}>>

\* run_llm: the synchronous twin of _arun_llm, with its own error texts.
RunLlm(kind, keys, out) ==
    IF kind = "BaseLLM"
    THEN IF "prompt" \notin keys
         THEN <<"raise", "LLM Run must contain 'prompt' key", {}, {}>>
         ELSE Call(out, "text")
    ELSE IF kind = "BaseChatModel"
    THEN IF "messages" \notin keys
         THEN <<"raise", "Chat Model Run must contain 'messages' key", {}, {}>>
         ELSE Call(out, "chat")
    ELSE <<"raise", "Unsupported LLM type", {}, {}>>

\* The try block of _arun_llm_or_chain's loop: a language model goes through
\* _arun_llm, a factory is called for a chain whose arun is awaited.
ATry(kind, keys, out) ==
    IF kind # "Factory" THEN ArunLlm(kind, keys, out) ELSE Call(out, "chain")

\* The try block of run_llm_or_chain's loop.
Try(kind, keys, out) ==
    IF kind # "Factory" THEN RunLlm(kind, keys, out) ELSE Call(out, "chain")

\* The count of the factory's calls goes on as long as no BaseException has
\* left the target; from then on the run is lost and the count is dropped.
Counted(outcomes, count) == IF "interrupt" \in outcomes THEN 0 ELSE count

\* A factory called for an example's first repetition only.
FactoryCall_once(kind, turn) == IF kind = "Factory" /\ turn = 1 THEN 1 ELSE 0

\* The calls of llm_or_chain_factory() in one turn of an evaluator's loop.
FactoryCall(kind, turn) == IF kind = "Factory" THEN 1 ELSE 0

\* A chain made once, in the first turn, and used again in the next ones.
ChainForTurn_hoisted(kind, old, turn) ==
    IF kind = "Factory" THEN (IF old = 0 THEN turn ELSE old) ELSE old

\* chain = llm_or_chain_factory(): the chain the turn invokes is the one the
\* turn's own factory call made; a language model binds no chain.
ChainForTurn(kind, old, turn) == IF kind = "Factory" THEN turn ELSE old

\* An output put at the head of the sequence.
OnReturn_prepend(outs, v) == <<Success(v)>> \o outs

\* outputs.append(output)
OnReturn(outs, v) == Append(outs, Success(v))

\* A handler that swallows the exception: `except Exception: pass`.
OnException_swallow(outs, text) == outs

\* except Exception as e: outputs.append({"Error": str(e)})
OnException(outs, text) == Append(outs, ErrorMarker(text))

\* A result map of one slot: the assignment replaces the map.
SetItem_single(map, key, value) == [k \in {key} |-> value]

\* results[key] = value
SetItem(map, key, value) ==
    [k \in DOMAIN map \cup {key} |-> IF k = key THEN value ELSE map[k]]

\* ------------------------------------------------------- session naming

\* _get_session_name: with no session name and a factory as the target, the
\* factory is called once for its class name; what it raises is not caught.
GetSessionName ==
    /\ phase = "start"
    /\ \E out \in Outcomes :
         LET r == IF sessionGiven \/ targetKind # "Factory"
                  THEN <<"return", "", {}, {}>> ELSE Call(out, "factory")
         IN  /\ seen' = seen \cup r[3]
             /\ factoryCalls' =
                    Counted(seen', factoryCalls + Cardinality(r[4]))
             /\ IF r[1] = "return"
                THEN /\ phase' = "named"
                     /\ error' = error
                ELSE /\ phase' = "raised"
                     /\ error' = IF r[1] = "raise" THEN "target"
                                                  ELSE "interrupt"
    /\ UNCHANGED <<args, semaphore, tracer_queue, built, tag, pc, held, prev,
                   outputs, rep, results, writes, num_processed, result,
                   current,
                   chain, invoked>>

\* -------------------------------------- _gather_with_concurrency: set-up

\* The call passes one more than the concurrency level.
GatherN_plus == concurrency_level + 1

\* The argument n of _gather_with_concurrency: arun_on_dataset passes
\* concurrency_level.
GatherN == concurrency_level

\* A semaphore made with whatever value it is given.
SemaphoreRejects_none(n) == FALSE

\* asyncio.Semaphore(n): "Semaphore initial value must be >= 0".
SemaphoreRejects(n) == n < 0

\* asyncio.Semaphore(n) raises ValueError for a negative n; job_state and the
\* empty tracer_queue are created.
MakeSemaphore ==
    /\ mode = "concurrent"
    /\ phase = "named"
    /\ IF SemaphoreRejects(GatherN)
       THEN /\ phase' = "raised"
            /\ error' = "semaphore"
            /\ semaphore' = semaphore
       ELSE /\ phase' = "building"
            /\ error' = error
            /\ semaphore' = GatherN
    /\ UNCHANGED <<args, tracer_queue, built, tag, pc, held, prev, outputs,
                   rep, results, writes, num_processed, result, current,
                   seen,
                   chain, invoked, factoryCalls>>

\* A pool one tracer short of the gate's permits.
PoolSize_short(n) == IF n > 1 THEN n - 1 ELSE 0

\* The tracers the loop `for _ in range(n)` builds.
PoolSize(n) == IF n > 0 THEN n ELSE 0

\* A loop that gives up on the pool when the initializer raises and goes on
\* to schedule the tasks with the tracers built so far.
BuildTracer_swallow ==
    /\ phase = "building"
    /\ built < PoolSize(GatherN)
    /\ \E ok \in BOOLEAN :
         IF ok
         THEN /\ built' = built + 1
              /\ tag' = Append(tag, NoTag)
              /\ tracer_queue' = Append(tracer_queue, built + 1)
              /\ UNCHANGED <<phase, error, pc>>
         ELSE /\ phase' = "gathering"
              /\ error' = "initializer"
              /\ pc' = [e \in Examples |-> "waiting"]
              /\ UNCHANGED <<built, tag, tracer_queue>>
    /\ UNCHANGED <<args, semaphore, held, prev, outputs, rep, results,
                   writes, num_processed, result, current, seen,
                   chain, invoked, factoryCalls>>

\* One turn of the loop: tracer_queue.put_nowait(await initializer()).  The
\* initializer (LangChainTracer.ensure_session) may raise; nothing catches it.
BuildTracer ==
    /\ phase = "building"
    /\ built < PoolSize(GatherN)
    /\ \E ok \in BOOLEAN :
         IF ok
         THEN /\ built' = built + 1
              /\ tag' = Append(tag, NoTag)
              /\ tracer_queue' = Append(tracer_queue, built + 1)
              /\ UNCHANGED <<phase, error>>
         ELSE /\ phase' = "raised"
              /\ error' = "initializer"
              /\ UNCHANGED <<built, tag, tracer_queue>>
    /\ UNCHANGED <<args, semaphore, pc, held, prev, outputs, rep, results,
                   writes, num_processed, result, current, seen,
                   chain, invoked, factoryCalls>>

\* asyncio.gather(...): one task per example is scheduled once the pool is
\* built.
StartGather ==
    /\ phase = "building"
    /\ built = PoolSize(GatherN)
    /\ phase' = "gathering"
    /\ pc' = [e \in Examples |-> "waiting"]
    /\ UNCHANGED <<args, error, semaphore, tracer_queue, built, tag, held,
                   prev, outputs, rep, results, writes, num_processed, result,
                   current, seen,
                   chain, invoked, factoryCalls>>

\* ------------------------------------ run_coroutine_with_semaphore: a task

\* A gate that never closes.
Locked_never(value) == FALSE

\* Semaphore.locked()
Locked(value) == value = 0

\* async with semaphore: the permit is taken.
Acquire(e) ==
    /\ pc[e] = "waiting"
    /\ ~Locked(semaphore)
    /\ semaphore' = semaphore - 1
    /\ pc' = [pc EXCEPT ![e] = "admitted"]
    /\ UNCHANGED <<args, phase, error, tracer_queue, built, tag, held, prev,
                   outputs, rep, results, writes, num_processed, result,
                   current, seen,
                   chain, invoked, factoryCalls>>

\* A get that leaves the item in the queue.
QueueGet_peek(q) == q

\* Queue.get(): the queue after its first item was taken.
QueueGet(q) == Tail(q)

\* tracer = await tracer_queue.get()
Checkout(e) ==
    /\ pc[e] = "admitted"
    /\ tracer_queue # <<>>
    /\ held' = [held EXCEPT ![e] = Head(tracer_queue)]
    /\ tracer_queue' = QueueGet(tracer_queue)
    /\ pc' = [pc EXCEPT ![e] = "checkedout"]
    /\ UNCHANGED <<args, phase, error, semaphore, built, tag, prev, outputs,
                   rep, results, writes, num_processed, result, current,
                   seen,
                   chain, invoked, factoryCalls>>

\* An evaluator that leaves the tracer's tag as it finds it.
SetTag_skip(tags, tracer, key) == tags

\* langchain_tracer.example_id = example.id
SetTag(tags, tracer, key) == [tags EXCEPT ![tracer] = key]

\* _arun_llm_or_chain, before its loop: the tracer's tag is saved and set.
AEvalBegin(e) ==
    /\ pc[e] = "checkedout"
    /\ prev' = [prev EXCEPT ![e] = tag[held[e]]]
    /\ tag' = SetTag(tag, held[e], Key(e))
    /\ outputs' = [outputs EXCEPT ![e] = <<>>]
    /\ rep' = [rep EXCEPT ![e] = 0]
    /\ pc' = [pc EXCEPT ![e] = "evaluating"]
    /\ UNCHANGED <<args, phase, error, semaphore, tracer_queue, built, held,
                   results, writes, num_processed, result, current, seen,
                   chain, invoked, factoryCalls>>

\* One turn of _arun_llm_or_chain's loop.  An Exception becomes a failure
\* marker; a BaseException that is no Exception leaves the evaluator and
\* process_example, with the frame's outputs.
ARepetition(e) ==
    /\ pc[e] = "evaluating"
    /\ rep[e] < num_repetitions
    /\ \E out \in Outcomes :
         LET r == ATry(targetKind, InputKeys(e), out)
         IN  /\ seen' = seen \cup r[3]
             /\ invoked' = invoked \cup {<<e, route>> : route \in r[4]}
             /\ factoryCalls' =
                    Counted(seen', factoryCalls
                                       + FactoryCall(targetKind, rep[e] + 1))
             /\ chain' = [chain EXCEPT ![e] =
                    IF r[1] = "interrupt" THEN 0
                    ELSE ChainForTurn(targetKind, @, rep[e] + 1)]
             /\ rep' = [rep EXCEPT ![e] = IF r[1] = "interrupt" THEN 0 ELSE @ + 1]
             /\ outputs' = [outputs EXCEPT ![e] =
                    CASE r[1] = "return" -> OnReturn(@, r[2])
                      [] r[1] = "raise"  -> OnException(@, r[2])
                      [] OTHER           -> <<>>]
             /\ pc' = [pc EXCEPT ![e] =
                    IF r[1] = "interrupt" THEN "raising" ELSE @]
    /\ UNCHANGED <<args, phase, error, semaphore, tracer_queue, built, tag,
                   held, prev, results, writes, num_processed, result,
                   current>>

\* An evaluator that leaves its own tag on the tracer.
RestoreTag_skip(tags, tracer, previous) == tags

\* langchain_tracer.example_id = previous_example_id
RestoreTag(tags, tracer, previous) == [tags EXCEPT ![tracer] = previous]

\* A count of the examples that starts over with every example.
Count_stale(processed) == 1

\* job_state["num_processed"] += 1
Count(processed) == processed + 1

\* A unit that sets its entry and counts itself once out of the gate, its
\* tracer put back.
Record_unheld(e) ==
    /\ pc[e] = "evaluating"
    /\ rep[e] >= num_repetitions
    /\ tag' = RestoreTag(tag, held[e], prev[e])
    /\ tracer_queue' = Append(tracer_queue, held[e])
    /\ held' = [held EXCEPT ![e] = NoTracer]
    /\ semaphore' = semaphore + 1
    /\ results' = SetItem(results, Key(e), outputs[e])
    /\ writes' = [writes EXCEPT ![e] = @ + 1]
    /\ num_processed' = Count(num_processed)
    /\ outputs' = [outputs EXCEPT ![e] = <<>>]
    /\ rep' = [rep EXCEPT ![e] = 0]
    /\ prev' = [prev EXCEPT ![e] = NoTag]
    /\ chain' = [chain EXCEPT ![e] = 0]
    /\ pc' = [pc EXCEPT ![e] = "done"]
    /\ UNCHANGED <<args, phase, error, built, result, current, seen,
                   invoked, factoryCalls>>

\* The loop of _arun_llm_or_chain is over: the tag is restored and outputs is
\* returned to process_example, which sets the result map's entry and counts
\* the example.  Nothing is awaited on the way.
Record(e) ==
    /\ pc[e] = "evaluating"
    /\ rep[e] >= num_repetitions
    /\ tag' = RestoreTag(tag, held[e], prev[e])
    /\ results' = SetItem(results, Key(e), outputs[e])
    /\ writes' = [writes EXCEPT ![e] = @ + 1]
    /\ num_processed' = Count(num_processed)
    /\ pc' = [pc EXCEPT ![e] = "recorded"]
    /\ UNCHANGED <<args, phase, error, semaphore, tracer_queue, built, held,
                   prev, outputs, rep, result, current, seen,
                   chain, invoked, factoryCalls>>

\* A checkin after the try block instead of in a finally clause: an exit by
\* exception skips it.
QueuePut_nofinally(q, tracer, raising) ==
    IF raising THEN q ELSE Append(q, tracer)

\* A checkin that puts the tracer back twice.
QueuePut_twice(q, tracer, raising) == Append(Append(q, tracer), tracer)

\* The queue after the finally clause; `raising` tells the exit by exception.
QueuePut(q, tracer, raising) == Append(q, tracer)

\* A gate that keeps the permits it gave.
SemRelease_keep(value, raising) == value

\* The semaphore's value after `async with semaphore` was left.
SemRelease(value, raising) == value + 1

\* The way out of run_coroutine_with_semaphore, by return or by exception:
\* finally: tracer_queue.put_nowait(tracer), then the end of
\* `async with semaphore` gives the permit back, and the task ends with the
\* result or with the exception.  Nothing is awaited on the way.
Exit(e) ==
    /\ pc[e] \in {"recorded", "raising"}
    /\ tracer_queue' = QueuePut(tracer_queue, held[e], pc[e] = "raising")
    /\ held' = [held EXCEPT ![e] = NoTracer]
    /\ chain' = [chain EXCEPT ![e] = 0]
    /\ semaphore' = SemRelease(semaphore, pc[e] = "raising")
    /\ outputs' = [outputs EXCEPT ![e] = <<>>]
    /\ rep' = [rep EXCEPT ![e] = 0]
    /\ prev' = [prev EXCEPT ![e] = NoTag]
    /\ pc' = [pc EXCEPT ![e] = IF @ = "raising" THEN "failed" ELSE "done"]
    /\ UNCHANGED <<args, phase, error, built, tag, results, writes,
                   num_processed, result, current, seen,
                   invoked, factoryCalls>>

\* ---------------------------------- the end of the concurrent entry point

\* gather returns once every task has ended with a result; arun_on_dataset
\* returns results.
GatherReturn ==
    /\ phase = "gathering"
    /\ \A e \in Examples : pc[e] = "done"
    /\ phase' = "returned"
    /\ UNCHANGED <<args, error, semaphore, tracer_queue, built, tag, pc, held,
                   prev, outputs, rep, results, writes, num_processed, result,
                   current, seen,
                   chain, invoked, factoryCalls>>

\* gather raises the first exception a task ended with; the other tasks are
\* not cancelled.
GatherRaise ==
    /\ phase = "gathering"
    /\ \E e \in Examples : pc[e] = "failed"
    /\ phase' = "raised"
    /\ error' = "interrupt"
    /\ UNCHANGED <<args, semaphore, tracer_queue, built, tag, pc, held, prev,
                   outputs, rep, results, writes, num_processed, result,
                   current, seen,
                   chain, invoked, factoryCalls>>

\* ------------------------------------------------------- run_on_dataset

\* tracer = LangChainTracer(session_name=session_name); tracer.ensure_session()
SeqBuildTracer ==
    /\ mode = "sequential"
    /\ phase = "named"
    /\ \E ok \in BOOLEAN :
         IF ok
         THEN /\ built' = 1
              /\ tag' = <<NoTag>>
              /\ phase' = "looping"
              /\ error' = error
         ELSE /\ phase' = "raised"
              /\ error' = "initializer"
              /\ UNCHANGED <<built, tag>>
    /\ UNCHANGED <<args, semaphore, tracer_queue, pc, held, prev, outputs,
                   rep, results, writes, num_processed, result, current,
                   seen,
                   chain, invoked, factoryCalls>>

\* The for loop binds the next example and calls run_llm_or_chain, which
\* saves and sets the tracer's tag.
SeqEvalBegin ==
    /\ phase = "looping"
    /\ current < numExamples
    /\ IF current = 0 THEN TRUE ELSE pc[current] = "done"
    /\ LET e == current + 1
       IN  /\ current' = e
           /\ held' = [held EXCEPT ![e] = 1]
           /\ prev' = [prev EXCEPT ![e] = tag[1]]
           /\ tag' = SetTag(tag, 1, Key(e))
           /\ outputs' = [outputs EXCEPT ![e] = <<>>]
           /\ rep' = [rep EXCEPT ![e] = 0]
           /\ pc' = [pc EXCEPT ![e] = "running"]
    /\ UNCHANGED <<args, phase, error, semaphore, tracer_queue, built,
                   results, writes, num_processed, result, seen,
                   chain, invoked, factoryCalls>>

\* One turn of run_llm_or_chain's loop.  A BaseException that is no
\* Exception leaves run_llm_or_chain and run_on_dataset.
SeqRepetition ==
    /\ phase = "looping"
    /\ current > 0
    /\ pc[current] = "running"
    /\ rep[current] < num_repetitions
    /\ \E out \in Outcomes :
         LET e == current
             r == Try(targetKind, InputKeys(e), out)
         IN  /\ seen' = seen \cup r[3]
             /\ invoked' = invoked \cup {<<e, route>> : route \in r[4]}
             /\ factoryCalls' =
                    Counted(seen', factoryCalls
                                       + FactoryCall(targetKind, rep[e] + 1))
             /\ chain' = [chain EXCEPT ![e] =
                    IF r[1] = "interrupt" THEN 0
                    ELSE ChainForTurn(targetKind, @, rep[e] + 1)]
             /\ rep' = [rep EXCEPT ![e] = IF r[1] = "interrupt" THEN 0 ELSE @ + 1]
             /\ outputs' = [outputs EXCEPT ![e] =
                    CASE r[1] = "return" -> OnReturn(@, r[2])
                      [] r[1] = "raise"  -> OnException(@, r[2])
                      [] OTHER           -> <<>>]
             /\ pc' = [pc EXCEPT ![e] =
                    IF r[1] = "interrupt" THEN "failed" ELSE @]
             /\ phase' = IF r[1] = "interrupt" THEN "raised" ELSE phase
             /\ error' = IF r[1] = "interrupt" THEN "interrupt" ELSE error
    /\ UNCHANGED <<args, semaphore, tracer_queue, built, tag, held, prev,
                   results, writes, num_processed, result, current>>

\* run_llm_or_chain, after its loop: the tag is restored, and outputs is
\* returned into run_on_dataset's `result`.
SeqEvalEnd ==
    /\ phase = "looping"
    /\ current > 0
    /\ pc[current] = "running"
    /\ rep[current] >= num_repetitions
    /\ LET e == current
       IN  /\ tag' = RestoreTag(tag, 1, prev[e])
           /\ result' = <<outputs[e]>>
           /\ chain' = [chain EXCEPT ![e] = 0]
           /\ held' = [held EXCEPT ![e] = NoTracer]
           /\ outputs' = [outputs EXCEPT ![e] = <<>>]
           /\ rep' = [rep EXCEPT ![e] = 0]
           /\ prev' = [prev EXCEPT ![e] = NoTag]
           /\ pc' = [pc EXCEPT ![e] = "done"]
    /\ UNCHANGED <<args, phase, error, semaphore, tracer_queue, built,
                   results, writes, num_processed, current, seen,
                   invoked, factoryCalls>>

\* After the loop: results[str(example.id)] = result, for the loop's last
\* example (with no example, `example` is unbound: UnboundLocalError); then
\* return results.
SeqFinish ==
    /\ phase = "looping"
    /\ current = numExamples
    /\ IF current = 0 THEN TRUE ELSE pc[current] = "done"
    /\ IF current = 0
       THEN /\ phase' = "raised"
            /\ error' = "unbound"
            /\ UNCHANGED <<results, writes>>
       ELSE /\ results' = SetItem(results, Key(current), result[1])
            /\ writes' = [writes EXCEPT ![current] = @ + 1]
            /\ phase' = "returned"
            /\ error' = error
    /\ UNCHANGED <<args, semaphore, tracer_queue, built, tag, pc, held, prev,
                   outputs, rep, num_processed, result, current, seen,
                   chain, invoked, factoryCalls>>

\* ------------------------------------------------------ the specification

Next ==
    \/ GetSessionName
    \/ MakeSemaphore
    \/ BuildTracer
    \/ StartGather
    \/ \E e \in Examples : Acquire(e)
    \/ \E e \in Examples : Checkout(e)
    \/ \E e \in Examples : AEvalBegin(e)
    \/ \E e \in Examples : ARepetition(e)
    \/ \E e \in Examples : Record(e)
    \/ \E e \in Examples : Exit(e)
    \/ GatherReturn
    \/ GatherRaise
    \/ SeqBuildTracer
    \/ SeqEvalBegin
    \/ SeqRepetition
    \/ SeqEvalEnd
    \/ SeqFinish

Spec == Init /\ [][Next]_vars

\* ------------------------------------------------------------ type check

TypeOK ==
    /\ phase \in {"start", "named", "building", "gathering", "looping",
                  "returned", "raised"}
    /\ error \in {"none", "target", "interrupt", "semaphore", "initializer",
                  "unbound"}
    /\ semaphore \in 0..MaxConcurrency
    /\ built \in 0..MaxConcurrency
    /\ Len(tag) = built
    /\ num_processed \in 0..MaxExamples

\* ------------------------------------------------------------ the claims

\* The keys the result map should hold: one per example.
KeySet == {Key(e) : e \in Examples}

\* The units of work past `async with semaphore` and not yet out of it.
Admitted ==
    {e \in Examples : pc[e] \in {"admitted", "checkedout", "evaluating",
                                 "recorded", "raising"}}

\* The units of work that took a tracer from the queue and did not put it
\* back.
Holders == {e \in Examples : held[e] # NoTracer}

\* The tracers in the queue.
Available == {tracer_queue[i] : i \in 1..Len(tracer_queue)}

IsSuccess(x) == x[1] = "Success" /\ x[2] = TargetValue

IsFailure(x) == x[1] = "Error"

\* A slot is a success payload or a failure marker, and not both.
GoodSlot(x) == Len(x) = 2 /\ (IsSuccess(x) # IsFailure(x))

GoodSequence(outs) ==
    /\ Len(outs) = num_repetitions
    /\ \A i \in 1..Len(outs) : GoodSlot(outs[i])

\* Some slot of the result map holds the target's error.
SomeTargetError ==
    \E k \in DOMAIN results : \E i \in 1..Len(results[k]) :
        results[k][i] = ErrorMarker(TargetError)

\* Some slot of the result map holds a success payload.
SomeSuccess ==
    \E k \in DOMAIN results : \E i \in 1..Len(results[k]) :
        IsSuccess(results[k][i])

\* C1: when arun_on_dataset returns, whatever the concurrency level >= 1, the
\* order in which the tasks ran and the failures of the target, the result
\* map's keys are exactly the examples' ids, one entry per example, and each
\* entry was written exactly once.
C1_ConcurrentKeySet ==
    (mode = "concurrent" /\ phase = "returned" /\ concurrency_level >= 1)
    => /\ DOMAIN results = KeySet
       /\ Cardinality(DOMAIN results) = numExamples
       /\ \A e \in Examples : writes[e] = 1

\* C1's case: a concurrent call over two examples or more has returned, and
\* the target failed in it and succeeded in it.
C1_Witness ==
    /\ mode = "concurrent"
    /\ phase = "returned"
    /\ concurrency_level >= 1
    /\ numExamples >= 2
    /\ SomeTargetError
    /\ SomeSuccess

\* C2: when run_on_dataset returns, the result map holds an entry for every
\* example: as many entries as examples, under the examples' ids.
C2_SequentialKeySet ==
    (mode = "sequential" /\ phase = "returned")
    => /\ DOMAIN results = KeySet
       /\ Cardinality(DOMAIN results) = numExamples

\* C3: what an evaluator returns (to process_example, or into run_on_dataset's
\* `result`), and so every entry of the result map, has exactly
\* num_repetitions slots, each one a success payload or a failure marker.
C3_OutputsLength ==
    /\ \A k \in DOMAIN results : GoodSequence(results[k])
    /\ \A e \in Examples : pc[e] = "recorded" => GoodSequence(outputs[e])
    /\ result # <<>> => GoodSequence(result[1])

\* C3's case: an evaluator returned two slots, a success payload and a
\* failure marker.
C3_Witness ==
    /\ num_repetitions = 2
    /\ \E k \in DOMAIN results :
         /\ IsSuccess(results[k][1])
         /\ IsFailure(results[k][2])

\* C4: at most concurrency_level units of work are past the semaphore and
\* not yet out of it (none when the level is negative).
C4_GateBound ==
    mode = "concurrent"
    => /\ concurrency_level >= 0 => Cardinality(Admitted) <= concurrency_level
       /\ concurrency_level < 0 => Admitted = {}

\* C4's case: the gate is full and a unit of work waits at it.
C4_Witness ==
    /\ mode = "concurrent"
    /\ concurrency_level >= 1
    /\ Cardinality(Admitted) = concurrency_level
    /\ \E e \in Examples : pc[e] = "waiting"

\* C5: at most concurrency_level evaluations hold a tracer taken from
\* tracer_queue and not yet put back.
C5_CheckoutBound ==
    mode = "concurrent"
    => /\ concurrency_level >= 0 => Cardinality(Holders) <= concurrency_level
       /\ concurrency_level < 0 => Holders = {}

\* C5's case: concurrency_level tracers are checked out while another unit
\* of work has none.
C5_Witness ==
    /\ mode = "concurrent"
    /\ concurrency_level >= 1
    /\ Cardinality(Holders) = concurrency_level
    /\ \E e \in Examples : pc[e] \in {"waiting", "admitted"}

\* C6: no tracer is held by two units of work, and every tracer built is
\* either once in the queue or held by exactly one unit of work.
C6_TracerExclusive ==
    mode = "concurrent"
    => /\ \A e1, e2 \in Holders : e1 # e2 => held[e1] # held[e2]
       /\ \A t \in Tracers :
            Cardinality({i \in 1..Len(tracer_queue) : tracer_queue[i] = t})
              + Cardinality({e \in Examples : held[e] = t}) = 1

\* C6's case: two evaluations are in flight, each with a tracer of its own.
C6_Witness ==
    /\ mode = "concurrent"
    /\ \E e1, e2 \in Examples :
         /\ e1 # e2
         /\ pc[e1] = "evaluating"
         /\ pc[e2] = "evaluating"
         /\ held[e1] # held[e2]

\* The concurrent call has scheduled its units of work: gather is awaited,
\* has returned, or has raised what a unit of work raised.
Gathered ==
    /\ mode = "concurrent"
    /\ \/ phase \in {"gathering", "returned"}
       \/ phase = "raised" /\ \E e \in Examples : pc[e] = "failed"

\* C7: a unit of work that has ended, by return or by exception, holds no
\* tracer and no permit: the permits out are those of the units in flight,
\* the tracers out of the queue are those they hold, and once every unit has
\* ended all the tracers are in the queue and all the permits are free.
C7_GuaranteedCheckin ==
    Gathered
    => /\ \A e \in Examples : pc[e] \in {"done", "failed"} => held[e] = NoTracer
       /\ semaphore = concurrency_level - Cardinality(Admitted)
       /\ Available = Tracers \ {held[e] : e \in Holders}
       /\ (\A e \in Examples : pc[e] \in {"done", "failed"})
            => /\ semaphore = concurrency_level
               /\ Available = 1..concurrency_level
               /\ Len(tracer_queue) = concurrency_level

\* C7's case: every unit of work has ended, one by return and one by an
\* exception the wrapped function raised.
C7_Witness ==
    /\ mode = "concurrent"
    /\ concurrency_level >= 1
    /\ \A e \in Examples : pc[e] \in {"done", "failed"}
    /\ \E e \in Examples : pc[e] = "done"
    /\ \E e \in Examples : pc[e] = "failed"

\* C8: when a batch call in which the target raised has returned, in either
\* mode, every example has its entry in the result map, with all its
\* repetitions recorded.
C8_FaultIsolation ==
    (phase = "returned" /\ "err" \in seen)
    => \A e \in Examples :
         /\ Key(e) \in DOMAIN results
         /\ Len(results[Key(e)]) = num_repetitions

\* The slots of an entry all of whose repetitions gave x.
Copies(x) == [i \in 1..num_repetitions |-> x]

\* C9: the target's error never reaches the caller of the batch call; when
\* every call of the target failed, the call that returned gives every example
\* num_repetitions failure markers with the target's error text, and when
\* every call succeeded, num_repetitions copies of the value.
C9_ErrorsContained ==
    /\ ~(phase = "raised" /\ error = "target")
    /\ (phase = "returned" /\ seen \subseteq {"err"})
       => \A e \in Examples :
            /\ Key(e) \in DOMAIN results
            /\ results[Key(e)] = Copies(ErrorMarker(TargetError))
    /\ (phase = "returned" /\ seen \subseteq {"ok"})
       => \A e \in Examples :
            /\ Key(e) \in DOMAIN results
            /\ results[Key(e)] = Copies(Success(TargetValue))

\* C10: once the initializer has failed while the pool was built, the
\* concurrent call has failed: no unit of work was scheduled, no evaluator
\* ran, no permit was taken, and the tracers built so far are all in the
\* queue, untagged and unheld.
C10_FailFastPool ==
    (mode = "concurrent" /\ error = "initializer")
    => /\ phase = "raised"
       /\ \A e \in Examples :
            /\ pc[e] = "unscheduled"
            /\ held[e] = NoTracer
            /\ rep[e] = 0
            /\ writes[e] = 0
       /\ semaphore = concurrency_level
       /\ Len(tracer_queue) = built
       /\ \A t \in Tracers : tag[t] = NoTag
       /\ DOMAIN results = {}
       /\ num_processed = 0

\* C10's case: the initializer failed after a first tracer was built, with
\* examples to evaluate.
C10_Witness ==
    /\ mode = "concurrent"
    /\ error = "initializer"
    /\ built >= 1
    /\ numExamples >= 1

\* C11: a concurrent batch call given concurrency level 0 fails at once with
\* a configuration error, and the tracer initializer is never invoked: the
\* call gets no further than its set-up, and no tracer is built.
C11_ZeroConcurrencyRejected ==
    (mode = "concurrent" /\ concurrency_level = 0)
        => /\ phase \in {"start", "named", "raised"}
           /\ phase = "raised" => error \in {"semaphore", "target", "interrupt"}
           /\ built = 0

\* C12: after the per-example evaluator returns, the tracer's tag equals the
\* value it had immediately before the evaluator was called, whatever that
\* value, the example and the failures of the repetitions were: the
\* evaluator saves the tag it finds on entry, keeps the saved value through
\* its loop, and on return leaves the saved value on the tracer.
C12_TagRestored ==
    [][\A e \in Examples :
         LET inside(p) == p \in {"evaluating", "running"}
         IN  /\ (~inside(pc[e]) /\ inside(pc'[e]))
                    => /\ held'[e] # NoTracer
                       /\ prev'[e] = tag[held'[e]]
             /\ (inside(pc[e]) /\ inside(pc'[e]))
                    => /\ held'[e] = held[e]
                       /\ prev'[e] = prev[e]
             /\ (inside(pc[e]) /\ pc'[e] \in {"recorded", "done"})
                    => tag'[held[e]] = prev[e]]_vars

\* An evaluator has returned on a tracer that came to it with another
\* example's tag, after a repetition of its own failed.
C12_Witness ==
    \E e \in Examples :
        /\ pc[e] = "recorded"
        /\ tag[held[e]] \notin {NoTag, Key(e)}
        /\ \E i \in 1..Len(results[Key(e)]) : IsFailure(results[Key(e)][i])

\* C13: with a factory for target, the evaluator calls the factory anew in
\* every repetition of every example, and the chain a repetition invokes is
\* the one made in that very repetition: after its i-th repetition an
\* evaluator's chain is the i-th it made, so no chain serves two repetitions
\* or two examples; and no route but a chain's is ever taken.
C13_FreshTarget ==
    targetKind = "Factory" =>
        /\ \A e \in Examples :
               (pc[e] \in {"evaluating", "running", "recorded"} /\ rep[e] >= 1)
                   => chain[e] = rep[e]
        /\ \A e \in Examples : \A route \in {"text", "chat"} :
               <<e, route>> \notin invoked

\* A factory's second example is through its second repetition.
C13_Witness ==
    /\ targetKind = "Factory"
    /\ \E e, f \in Examples :
           /\ pc[f] = "done"
           /\ pc[e] \in {"recorded", "running"}
           /\ rep[e] = 2
           /\ chain[e] = 2
           /\ <<e, "chain">> \in invoked
           /\ <<f, "chain">> \in invoked

\* ------------------------------------------- the concurrent call, scheduled

\* arun_on_dataset alone, given a session name and a factory of chains: the
\* chains' invocations return, raise or are interrupted, and the repetitions
\* are few.
ConcurrentInit ==
    /\ Init
    /\ mode = "concurrent"
    /\ targetKind = "Factory"
    /\ sessionGiven
    /\ num_repetitions <= FairRepetitions

ConcurrentNext ==
    \/ GetSessionName
    \/ MakeSemaphore
    \/ BuildTracer
    \/ StartGather
    \/ \E e \in Examples : Acquire(e)
    \/ \E e \in Examples : Checkout(e)
    \/ \E e \in Examples : AEvalBegin(e)
    \/ \E e \in Examples : ARepetition(e)
    \/ \E e \in Examples : Record(e)
    \/ \E e \in Examples : Exit(e)
    \/ GatherReturn
    \/ GatherRaise

\* The event loop runs a callback whenever one is ready, and the target's
\* invocations end: the call does not stop while a step of it can be taken.
FairSpec ==
    ConcurrentInit /\ [][ConcurrentNext]_vars /\ WF_vars(ConcurrentNext)

\* The units of work are scheduled, behind a gate of one permit or more.
Scheduled == concurrency_level >= 1 /\ phase = "gathering"

\* Every unit of work has ended, with its result or with an exception, and
\* gather has ended.
Finished ==
    /\ phase \in {"returned", "raised"}
    /\ \A e \in Examples : pc[e] \in {"done", "failed"}

\* C14: with a concurrency level of 1 or more, once the units of work are
\* scheduled, every one of them eventually ends and gather ends; a unit ends
\* only out of the gate, with a permit and a tracer in hand; and the call
\* returns only when every unit has ended with its result.
C14_Termination ==
    /\ Scheduled ~> Finished
    /\ [][\A e \in Examples :
             (pc[e] \notin {"done", "failed"} /\ pc'[e] \in {"done", "failed"})
                 => (e \in Admitted /\ held[e] # NoTracer)]_vars
    /\ [](phase = "returned" => \A e \in Examples : pc[e] = "done")

\* The call has returned after more units than permits went through the gate.
C14_Witness ==
    /\ mode = "concurrent"
    /\ phase = "returned"
    /\ concurrency_level >= 1
    /\ numExamples > concurrency_level
    /\ \A e \in Examples : pc[e] = "done"

\* The units of work past the gate that have not yet taken a tracer.
AwaitingTracer == {e \in Examples : pc[e] = "admitted"}

\* C15: in a concurrent run with a concurrency level of 1 or more, the units
\* past the gate that have not yet taken a tracer are never more than the
\* tracers in the queue, so the get that follows the gate finds a tracer.
C15_GateLockstep ==
    (mode = "concurrent" /\ concurrency_level >= 1)
        => Cardinality(AwaitingTracer) <= Len(tracer_queue)

\* One unit holds a tracer while another, past the gate, is about to take
\* the only one left.
C15_Witness ==
    /\ mode = "concurrent"
    /\ Holders # {}
    /\ Cardinality(AwaitingTracer) = 1
    /\ Len(tracer_queue) = 1

\* The steps of one concurrent unit of work, in the order the code takes them.
UnitOrder ==
    {<<"unscheduled", "waiting">>, <<"waiting", "admitted">>,
     <<"admitted", "checkedout">>, <<"checkedout", "evaluating">>,
     <<"evaluating", "evaluating">>, <<"evaluating", "recorded">>,
     <<"evaluating", "raising">>, <<"recorded", "done">>,
     <<"raising", "failed">>}

\* C16, as the specification states it: the result map's entry of an example
\* is written, and the counter incremented, only after the unit's tracer was
\* checked in and its permit released.
C16_WriteAfterRelease ==
    mode = "concurrent" =>
        \A e \in Examples :
            writes[e] > 0 => (held[e] = NoTracer /\ e \notin Admitted)

\* C16, amended: a concurrent unit acquires the gate, checks out a tracer,
\* runs the evaluator, then writes the result map's entry and increments the
\* counter while it still holds the tracer and the permit, and only then
\* checks the tracer in and releases the gate.
C16_StepOrder ==
    [][mode = "concurrent" =>
         \A e \in Examples :
             /\ pc'[e] # pc[e] => <<pc[e], pc'[e]>> \in UnitOrder
             /\ writes'[e] # writes[e]
                    => /\ pc[e] = "evaluating" /\ pc'[e] = "recorded"
                       /\ writes'[e] = writes[e] + 1
                       /\ num_processed' = num_processed + 1
                       /\ held[e] # NoTracer /\ held'[e] = held[e]
                       /\ tracer_queue' = tracer_queue
                       /\ semaphore' = semaphore
             /\ (pc[e] = "recorded" /\ pc'[e] # pc[e])
                    => /\ writes[e] = 1 /\ writes'[e] = 1
                       /\ tracer_queue' = Append(tracer_queue, held[e])
                       /\ held'[e] = NoTracer
                       /\ semaphore' = semaphore + 1]_vars

\* A unit has written its entry and counted itself, its tracer and its
\* permit still in hand.
C16_Witness ==
    /\ mode = "concurrent"
    /\ \E e \in Examples :
           /\ pc[e] = "recorded"
           /\ writes[e] = 1
           /\ Key(e) \in DOMAIN results
           /\ num_processed >= 1
           /\ held[e] # NoTracer
           /\ held[e] \notin Available
           /\ semaphore < concurrency_level

\* C17: within one example's evaluation the repetitions come one after the
\* other: a repetition is gone through only when the outcomes of all the
\* earlier ones are in the output sequence, it appends its own outcome at the
\* end and leaves the earlier ones as they are, and no step of another
\* example's evaluation touches the sequence.
C17_SequentialRepetitions ==
    /\ [](\A e \in Examples : Len(outputs[e]) = rep[e])
    /\ [][\A e \in Examples :
             /\ rep'[e] = rep[e] + 1
                    => /\ Len(outputs[e]) = rep[e]
                       /\ Len(outputs'[e]) = rep[e] + 1
                       /\ SubSeq(outputs'[e], 1, rep[e]) = outputs[e]
                       /\ \/ IsSuccess(outputs'[e][rep[e] + 1])
                          \/ IsFailure(outputs'[e][rep[e] + 1])
             /\ outputs'[e] # outputs[e]
                    => (rep'[e] = rep[e] + 1 \/ outputs'[e] = <<>>)]_vars

\* An example's second repetition succeeded after its first one failed, while
\* another example's evaluation is under way.
C17_Witness ==
    \E e, f \in Examples :
        /\ e # f
        /\ pc[e] = "evaluating"
        /\ rep[e] = 2
        /\ IsFailure(outputs[e][1])
        /\ IsSuccess(outputs[e][2])
        /\ pc[f] = "evaluating"
        /\ rep[f] = 1

\* C18: in a concurrent run no increment of job_state's num_processed is
\* lost: at every point the counter is the number of entries written into
\* the result map so far, and when the call returns it is the number of
\* examples.
C18_CounterExact ==
    mode = "concurrent" =>
        /\ num_processed = Cardinality(DOMAIN results)
        /\ num_processed = Cardinality({e \in Examples : writes[e] > 0})
        /\ phase = "returned" => num_processed = numExamples

\* The call has returned, two examples counted behind a gate of two permits.
C18_Witness ==
    /\ mode = "concurrent"
    /\ phase = "returned"
    /\ concurrency_level = 2
    /\ numExamples = 2
    /\ num_processed = 2

\* The routes by which example e's inputs reached the target so far.
RoutesOf(e) == {route \in {"text", "chat", "chain"} : <<e, route>> \in invoked}

\* Example e's evaluator has been through a repetition and has not left.
Turned(e) ==
    pc[e] \in {"evaluating", "running", "recorded"} /\ rep[e] >= 1

\* The failure markers of a model that was not called.
IsShapeFailure(x) == IsFailure(x) /\ x[2] # TargetError

\* C19, as the specification states it: with a language model for target,
\* inputs with a "prompt" go to a text completion, inputs with "messages" go
\* to a chat invocation, and other inputs go to no invocation and give a
\* failure marker.
C19_RoutingByPayload ==
    targetKind # "Factory" =>
        \A e \in Examples :
            Turned(e) =>
                /\ "prompt" \in InputKeys(e) => RoutesOf(e) = {"text"}
                /\ "messages" \in InputKeys(e) => RoutesOf(e) = {"chat"}
                /\ InputKeys(e) \cap {"prompt", "messages"} = {}
                       => /\ RoutesOf(e) = {}
                          /\ \A i \in 1..Len(outputs[e]) :
                                 IsShapeFailure(outputs[e][i])

\* The route the target's kind and the inputs' keys call for.
Expected(kind, keys) ==
    IF kind = "BaseLLM" /\ "prompt" \in keys THEN {"text"}
    ELSE IF kind = "BaseChatModel" /\ "messages" \in keys THEN {"chat"}
    ELSE {}

\* C19, amended: with a language model for target, the route is chosen by the
\* model's kind: a BaseLLM is given a text completion when the inputs hold a
\* "prompt", a BaseChatModel a chat invocation when they hold "messages";
\* with any other pair of model and inputs the model is not invoked and every
\* repetition of that example gives a failure marker, other than the
\* target's own.
C19_RoutingByKind ==
    targetKind # "Factory" =>
        \A e \in Examples :
            /\ RoutesOf(e) \subseteq Expected(targetKind, InputKeys(e))
            /\ Turned(e) =>
                   /\ RoutesOf(e) = Expected(targetKind, InputKeys(e))
                   /\ Expected(targetKind, InputKeys(e)) = {}
                          => \A i \in 1..Len(outputs[e]) :
                                 IsShapeFailure(outputs[e][i])

\* A BaseLLM completed the example that holds a prompt, and the example that
\* holds messages got two failure markers without a call of the model.
C19_Witness ==
    /\ targetKind = "BaseLLM"
    /\ \E e, f \in Examples :
           /\ "prompt" \in InputKeys(e)
           /\ <<e, "text">> \in invoked
           /\ Key(e) \in DOMAIN results
           /\ \E i \in 1..Len(results[Key(e)]) : IsSuccess(results[Key(e)][i])
           /\ "messages" \in InputKeys(f)
           /\ Turned(f)
           /\ RoutesOf(f) = {}
           /\ Len(outputs[f]) = 2
           /\ \A i \in 1..2 : IsShapeFailure(outputs[f][i])

\* C20: on a dataset of no example both entry points return an empty result
\* map and do not raise: a call that got as far as its tracers ends
\* returned, never raised, and what it returns is empty.
C20_EmptyBatch ==
    numExamples = 0 =>
        /\ phase = "returned" => DOMAIN results = {}
        /\ phase = "raised" => error \in {"target", "interrupt", "semaphore",
                                          "initializer"}

\* C21: with a negative concurrency level the concurrent call fails at its
\* start: it gets no further than the making of the semaphore, where it
\* raises; no tracer is built, no unit of work is scheduled and the target is
\* not invoked on any example.
C21_NegativeRejected ==
    (mode = "concurrent" /\ concurrency_level < 0)
        => /\ phase \in {"start", "named", "raised"}
           /\ phase = "raised" => error \in {"semaphore", "target", "interrupt"}
           /\ built = 0
           /\ tracer_queue = <<>>
           /\ \A e \in Examples : pc[e] = "unscheduled" /\ rep[e] = 0
           /\ invoked = {}
           /\ results = <<>>

\* A call with a negative level, on a dataset with examples, has raised at
\* the making of the semaphore.
C21_Witness ==
    /\ mode = "concurrent"
    /\ concurrency_level < 0
    /\ numExamples >= 1
    /\ phase = "raised"
    /\ error = "semaphore"

\* C22: in a concurrent run, from the start of an example's first repetition
\* to the end of its last one, the tracer its evaluator runs on carries that
\* example's id for tag, and no step of another unit of work changes the tag
\* of that tracer meanwhile.
C22_TraceAttribution ==
    /\ [](mode = "concurrent" =>
              \A e \in Examples :
                  pc[e] = "evaluating"
                      => (held[e] # NoTracer /\ tag[held[e]] = Key(e)))
    /\ [][mode = "concurrent" =>
              \A e \in Examples :
                  (pc[e] = "evaluating" /\ pc'[e] = "evaluating")
                      => /\ held'[e] = held[e]
                         /\ tag'[held[e]] = tag[held[e]]]_vars

\* Two evaluations are under way together, each past its first repetition,
\* each on its own tracer with its own example's id for tag.
C22_Witness ==
    /\ mode = "concurrent"
    /\ \E e, f \in Examples :
           /\ e # f
           /\ pc[e] = "evaluating" /\ rep[e] >= 1
           /\ pc[f] = "evaluating" /\ rep[f] >= 1
           /\ held[e] # held[f]
           /\ tag[held[e]] = Key(e)
           /\ tag[held[f]] = Key(f)

\* The tracers in the hands of units of work.
HeldTracers == {held[e] : e \in Holders}

\* C23: in a concurrent run with a concurrency level n of 0 or more, the
\* tracers are built before any unit of work starts, n of them and never
\* more; once the units are scheduled, the tracers in the queue and the
\* tracers held by the units are n together, each of the n built tracers is
\* in exactly one place, and none was built since.
C23_PoolConservation ==
    (mode = "concurrent" /\ concurrency_level >= 0)
        => /\ built <= concurrency_level
           /\ (\E e \in Examples : pc[e] # "unscheduled")
                  => built = concurrency_level
           /\ Gathered
                  => /\ built = concurrency_level
                     /\ Len(tracer_queue) + Cardinality(Holders)
                            = concurrency_level
                     /\ Cardinality(Available) = Len(tracer_queue)
                     /\ Cardinality(HeldTracers) = Cardinality(Holders)
                     /\ Available \cap HeldTracers = {}
                     /\ Available \cup HeldTracers = Tracers

\* Of two tracers one is back in the queue after a unit ended, and the other
\* is held by a unit in flight.
C23_Witness ==
    /\ mode = "concurrent"
    /\ concurrency_level = 2
    /\ built = 2
    /\ Len(tracer_queue) = 1
    /\ \E e, f \in Examples :
           /\ pc[e] \in {"done", "failed"}
           /\ held[f] # NoTracer

\* The factory call that names the session (_get_session_name), once made.
NamingCalls ==
    IF targetKind = "Factory" /\ ~sessionGiven /\ phase # "start"
    THEN 1 ELSE 0

\* The turns of its evaluator's loop that example e has been through, in a
\* run where no evaluator was left by a BaseException.
TurnsOf(e) ==
    IF pc[e] \in {"evaluating", "running"} THEN rep[e]
    ELSE IF pc[e] \in {"recorded", "done"} THEN num_repetitions
    ELSE 0

RECURSIVE SumTurns(_)
SumTurns(n) == IF n = 0 THEN 0 ELSE TurnsOf(n) + SumTurns(n - 1)

\* C24: with a factory for target, in a run that no BaseException cuts
\* short, the factory is called once per repetition gone through, so
\* examples x repetitions times by the time the call returns when the session
\* name is given; without a given name it is called once more, for the name,
\* before any tracer is built and any example evaluated, and the chain made
\* for the name is invoked on no example.
C24_FactoryCount ==
    (targetKind = "Factory" /\ "interrupt" \notin seen)
        => /\ factoryCalls = NamingCalls + SumTurns(numExamples)
           /\ phase = "start" => factoryCalls = 0
           /\ phase = "named"
                  => /\ factoryCalls = (IF sessionGiven THEN 0 ELSE 1)
                     /\ built = 0
                     /\ \A e \in Examples : pc[e] = "unscheduled"
           /\ phase = "returned"
                  => factoryCalls = (IF sessionGiven THEN 0 ELSE 1)
                                        + numExamples * num_repetitions
           /\ \A e \in Examples : <<e, "factory">> \notin invoked

\* A call without a given session name has returned after two repetitions of
\* each of two examples: five calls of the factory.
C24_Witness ==
    /\ targetKind = "Factory"
    /\ ~sessionGiven
    /\ "interrupt" \notin seen
    /\ phase = "returned"
    /\ numExamples = 2
    /\ num_repetitions = 2
    /\ factoryCalls = 5

====
